---- MODULE Spec2Model ----
(***************************************************************************)
(* Scan lifecycle of the Power BI catalog: ScanManager (scan_manager.py)   *)
(* driven by the scan endpoints and the background task of api/main.py.    *)
(*                                                                         *)
(* The server is one asyncio event loop: a handler runs without            *)
(* interleaving until it awaits.  start_scan awaits once, for the spawned  *)
(* extraction process; everything after the process exits (status          *)
(* PROCESSING, the import, COMPLETED or FAILED) is synchronous.  The only  *)
(* thing that can happen inside that synchronous section is the death of   *)
(* the server process (Restart).                                           *)
(*                                                                         *)
(* Strings are sequences of parts so that concatenation is visible.        *)
(* A timestamp is modelled by its ordinal: created_at is the number of the *)
(* creation, completed_at the number of times the scan's completion time   *)
(* was stored (successive readings of datetime.now() differ).  Timestamps  *)
(* inside log entries are not modelled.                                    *)
(*                                                                         *)
(* The environment: a client names its scan (the timestamp name given to   *)
(* a request without scan_name is followed by SpecNames), scan ids are     *)
(* fresh, the extraction process may fail to spawn and exits with any      *)
(* code and stderr, the import succeeds or fails (SpecImport runs the      *)
(* importer on an artifact directory), and a file operation fails exactly  *)
(* when the directory it needs does not exist.                             *)
(***************************************************************************)
EXTENDS Integers, Sequences, FiniteSets, TLC

\* Number of POST /api/scans requests that are explored.
MaxScans == 2

\* Python None for string-valued fields, and for timestamps.
PyNone == [py |-> "None"]
PyStr(parts) == [py |-> "str", parts |-> parts]
NoTime == 0

\* Truthiness of an optional string (None and "" are falsy).
RECURSIVE TextLen(_)
TextLen(parts) ==
    IF parts = <<>> THEN 0
    ELSE (IF Head(parts) = "" THEN 0 ELSE 1) + TextLen(Tail(parts))

Truthy(v) == v.py = "str" /\ TextLen(v.parts) > 0

\* ScanStatus
PENDING == "pending"
RUNNING == "running"
PROCESSING == "processing"
COMPLETED == "completed"
FAILED == "failed"
CANCELLED == "cancelled"

ScanStatus == {PENDING, RUNNING, PROCESSING, COMPLETED, FAILED, CANCELLED}

\* ---------------------------------------------------------------------
\* Scan names
\* ---------------------------------------------------------------------

\* Names a client may request, as sequences of characters.
RequestedNames == {<<"a">>, <<"a", "/">>, <<"/">>}

\* str.isalnum, on the characters the model uses.
isalnum(c) ==
    c \in {"a", "b", "c", "n", "s", "B",
           "0", "1", "2", "3", "4", "5", "6", "7", "8", "9"}

KeepChar(c) == isalnum(c) \/ c \in {" ", "-", "_"}

RECURSIVE rstrip(_)
rstrip(s) ==
    IF s # <<>> /\ s[Len(s)] = " " THEN rstrip(SubSeq(s, 1, Len(s) - 1)) ELSE s

ReplaceSpaces(s) == [i \in 1..Len(s) |-> IF s[i] = " " THEN "_" ELSE s[i]]

\* SanitizeName with the spaces left as they are.
SanitizeNameKeepingSpaces(name) == rstrip(SelectSeq(name, KeepChar))

\* create_scan, the else branch: the name made filesystem safe.
SanitizeName(name) == ReplaceSpaces(rstrip(SelectSeq(name, KeepChar)))

\* timestamp.strftime('%Y-%m-%d_%H-%M-%S'), each field a sequence of digits.
strftime(t) ==
    t.Y \o <<"-">> \o t.m \o <<"-">> \o t.d \o <<"_">>
    \o t.H \o <<"-">> \o t.M \o <<"-">> \o t.S

\* create_scan, the name of the scan: made from the time of the request
\* when the request has no name or an empty one, else made filesystem safe.
ScanName(scan_name, timestamp) ==
    IF ~Truthy(scan_name)
    THEN PyStr(<<"s", "c", "a", "n", "_">> \o strftime(timestamp))
    ELSE PyStr(SanitizeName(scan_name.parts))

\* The directory of the base directory itself: base_scan_dir / "".
BaseDir == <<>>

DirNames == {SanitizeName(n) : n \in RequestedNames} \cup {BaseDir}

ScanIds == 1..MaxScans

\* ---------------------------------------------------------------------
\* File system below base_scan_dir
\* ---------------------------------------------------------------------
\* fs[d] is the state of directory base_scan_dir / d:
\*   NoDir     the directory does not exist
\*   NoFile    it exists and holds no metadata.json
\*   a record  it exists and metadata.json holds that record
\*   Truncated it exists and metadata.json holds the beginning of a record:
\*             the file was opened for writing and not written to its end
\* fs[BaseDir] is base_scan_dir itself; every other directory lies in it.
NoDir == [py |-> "NoDir"]
NoFile == [py |-> "NoFile"]
Truncated == [py |-> "truncated"]

IsRecord(x) == x.py = "dict"

DirExists(f, d) == f[BaseDir] # NoDir /\ f[d] # NoDir

\* shutil.rmtree(scan_dir)
rmtree(f, d) ==
    IF d = BaseDir THEN [e \in DirNames |-> NoDir]
    ELSE [f EXCEPT ![d] = NoDir]

VARIABLES
    active_scans,   \* ScanManager.active_scans: scan_id -> scan_info, or PyNone
    fs,             \* the directories under base_scan_dir
    tasks,          \* the background tasks run_scan_background, in creation order
    json_files,     \* the files of one artifact directory (a scan's json_dir)
    db,             \* the SQLite store next to it (the scan's db_path)
    requested,      \* a create request: the scan_name asked for and its time
    stored_name,    \* the scan_name create_scan stores for it
    display_name,   \* the display names of a dataset and of its workspace
    dataset_file    \* the name of its detail file: as written, as looked up

vars == <<active_scans, fs, tasks, json_files, db, requested, stored_name,
          display_name, dataset_file>>

\* The name of one request is followed by SpecNames only, the name of one
\* detail file by SpecFiles only.
nameVars == <<requested, stored_name, display_name, dataset_file>>

\* The artifact directory and the store are followed by SpecImport only;
\* Spec takes the outcome of the import from its environment.
importVars == <<json_files, db>>

\* One world: the state the ScanManager methods read and write.
World == [cache |-> active_scans, fs |-> fs]

\* ---------------------------------------------------------------------
\* ScanManager
\* ---------------------------------------------------------------------

\* The metadata record create_scan builds.  scan_dir, json_dir and db_path
\* are functions of scan_name and are not stored separately; the four
\* workspace/dataset counters stay 0 and are left out.
NewScanMetadata(id, name, now) ==
    [py |-> "dict",
     scan_id |-> id,
     scan_name |-> name,
     created_at |-> now,
     status |-> PENDING,
     progress |-> 0,
     log_messages |-> <<>>,
     error_message |-> PyNone,
     completed_at |-> NoTime]

ScanDir(info) == info.scan_name

\* The directory whose metadata.json holds a record with this scan_id.
DirsHolding(f, id) ==
    {d \in DirNames \ {BaseDir} : IsRecord(f[d]) /\ f[d].scan_id = id}

\* Body applied to value, with the value computed once.
With(value, Body(_)) == CHOOSE r \in {Body(v) : v \in {value}} : TRUE

RECURSIVE Listing(_)
Listing(dirs) ==
    IF dirs = {} THEN <<>>
    ELSE <<CHOOSE d \in dirs : TRUE>> \o Listing(dirs \ {CHOOSE d \in dirs : TRUE})

\* base_scan_dir.iterdir(): the directories in base_scan_dir, in the order
\* the file system lists them.  The names of RequestedNames make one
\* directory, so there is one order.
iterdir == Listing(DirNames \ {BaseDir})

\* The places in iterdir at which the loop of get_scan ends: at the file
\* json.load raises on, at the file that holds the scan.
LoopEnds(f, id) ==
    {i \in DOMAIN iterdir : \/ f[iterdir[i]] = Truncated
                            \/ iterdir[i] \in DirsHolding(f, id)}

\* get_scan: the cache entry, else the record found on disk (which is then
\* cached), else None.  iterdir raises when base_scan_dir does not exist,
\* and json.load raises on the first file met that is not a whole record.
get_scan(world, id) ==
    With(world, LAMBDA w :
    IF w.cache[id] # PyNone
    THEN [w |-> w, val |-> w.cache[id], raised |-> FALSE]
    ELSE IF w.fs[BaseDir] = NoDir
    THEN [w |-> w, val |-> PyNone, raised |-> TRUE]
    ELSE With(LoopEnds(w.fs, id), LAMBDA ends :
         IF ends = {}
         THEN [w |-> w, val |-> PyNone, raised |-> FALSE]
         ELSE With(w.fs[iterdir[CHOOSE i \in ends : \A k \in ends : i <= k]],
                   LAMBDA metadata :
              IF metadata = Truncated
              THEN [w |-> w, val |-> PyNone, raised |-> TRUE]
              ELSE [w |-> [w EXCEPT !.cache[id] = metadata],
                    val |-> metadata, raised |-> FALSE])))

\* sorted by created_at, reverse=True
RECURSIVE NewestFirst(_)
NewestFirst(scans) ==
    IF scans = {} THEN <<>>
    ELSE LET newest == CHOOSE x \in scans :
                          \A y \in scans : y.created_at <= x.created_at
         IN <<newest>> \o NewestFirst(scans \ {newest})

\* list_scans: the records of the metadata files of the directories in
\* base_scan_dir, newest first.  iterdir raises when base_scan_dir does not
\* exist.
list_scans(w) ==
    IF w.fs[BaseDir] = NoDir
    THEN [val |-> <<>>, raised |-> TRUE]
    ELSE [val |-> NewestFirst({w.fs[d] : d \in {e \in DirNames \ {BaseDir} :
                                                  IsRecord(w.fs[e])}}),
          raised |-> FALSE]

\* datetime.now() when the last completion time stored was last.
Now(last) == last + 1

\* progress=None
NoProgress == -1

TerminalStatus == {COMPLETED, FAILED, CANCELLED}

\* UpdatedInfo with FAILED left out of the statuses that stamp completed_at.
UpdatedInfoFailedNotStamped(info, status, progress, message, error, now) ==
    [info EXCEPT
        !.status = status,
        !.progress = IF progress # NoProgress THEN progress ELSE @,
        !.log_messages = IF Truthy(message) THEN Append(@, message) ELSE @,
        !.error_message = IF Truthy(error) THEN error ELSE @,
        !.completed_at = IF status \in {COMPLETED, CANCELLED} THEN now ELSE @]

\* UpdatedInfo with the message stored as the error when no error is given.
UpdatedInfoMessageAsError(info, status, progress, message, error, now) ==
    [info EXCEPT
        !.status = status,
        !.progress = IF progress # NoProgress THEN progress ELSE @,
        !.log_messages = IF Truthy(message) THEN Append(@, message) ELSE @,
        !.error_message = IF Truthy(error) THEN error
                          ELSE IF Truthy(message) THEN message ELSE @,
        !.completed_at = IF status \in TerminalStatus THEN now ELSE @]

\* update_scan_status, "Update in memory": the new scan_info.
UpdatedInfo(info, status, progress, message, error, now) ==
    [info EXCEPT
        !.status = status,
        !.progress = IF progress # NoProgress THEN progress ELSE @,
        !.log_messages = IF Truthy(message) THEN Append(@, message) ELSE @,
        !.error_message = IF Truthy(error) THEN error ELSE @,
        !.completed_at = IF status \in TerminalStatus THEN now ELSE @]

\* update_scan_status: memory first, then metadata.json; open() raises when
\* the scan directory is gone, after memory has been changed.
update_scan_status(w, id, status, progress, message, error) ==
    LET g == get_scan(w, id) IN
    IF g.raised THEN [w |-> w, raised |-> TRUE]
    ELSE IF g.val = PyNone THEN [w |-> g.w, raised |-> FALSE]
    ELSE
      LET info == UpdatedInfo(g.val, status, progress, message, error,
                              Now(g.val.completed_at))
          w1 == [g.w EXCEPT !.cache[id] = info]
      IN IF DirExists(w1.fs, ScanDir(info))
         THEN [w |-> [w1 EXCEPT !.fs[ScanDir(info)] = info], raised |-> FALSE]
         ELSE [w |-> w1, raised |-> TRUE]

\* Texts
MsgStarting == PyStr(<<"Starting Power BI tenant scan...">>)
MsgProcessing == PyStr(<<"Scan completed, processing results into database...">>)
MsgImported == PyStr(<<"Database import completed successfully">>)
MsgCompleted == PyStr(<<"Scan completed successfully!">>)
MsgCancelled == PyStr(<<"Scan cancelled by user">>)
ErrImport == PyStr(<<"Failed to import scan results to database">>)

\* What the extraction process may leave on stderr.
StderrTexts == {"", "boom"}

\* ErrScanFailed with the captured stderr dropped.
ErrScanFailedWithoutStderr(stderr) ==
    PyStr(<<"Scan failed: ", "Unknown error occurred">>)

\* start_scan, returncode != 0
ErrScanFailed(stderr) ==
    PyStr(<<"Scan failed: ", IF stderr # "" THEN stderr ELSE "Unknown error occurred">>)

\* start_scan, except Exception
ErrException(exc) ==
    PyStr(<<"Exception during scan: ", exc, "\n\nTraceback:\n", "traceback">>)

\* run_scan_background, except Exception
ErrBackground(exc) == PyStr(<<"Background scan failed: ", exc>>)

ExcNoSuchFile == "[Errno 2] No such file or directory"
ExcSpawn == "[Errno 2] No such file or directory: python.exe"

\* os.makedirs(dirname(db_path), exist_ok=True) in create_schema
makedirs(f, d) ==
    [e \in DirNames |-> IF e \in {BaseDir, d} /\ f[e] = NoDir THEN NoFile ELSE f[e]]

\* A step of the background task: the world after it, where the task is
\* next (pc), what start_scan returned (result) and the exception that is
\* propagating (exc).  pc:
\*   "scheduled"   added by the endpoint, not yet started
\*   "extracting"  start_scan awaits the extraction process
\*   "importing"   the process exited with 0, _import_scan_to_db is next
\*   "except"      an exception was raised in start_scan's try block
\*   "wrapper"     an exception left start_scan
\*   "done"        the task ended; "dead": the server died under it
Outcome(w, pc, result, exc) == [w |-> w, pc |-> pc, result |-> result, exc |-> exc]

NoExc == ""

\* start_scan up to the await on the extraction process.  spawned is the
\* outcome of create_subprocess_exec.
start_scan_begin(w, id, spawned) ==
    LET g == get_scan(w, id) IN
    IF g.raised THEN Outcome(w, "wrapper", "raised", ExcNoSuchFile)
    ELSE IF g.val = PyNone THEN Outcome(g.w, "done", "false", NoExc)
    ELSE
      LET u == update_scan_status(g.w, id, RUNNING, 0, MsgStarting, PyNone) IN
      IF u.raised THEN Outcome(u.w, "except", "none", ExcNoSuchFile)
      ELSE IF ~spawned THEN Outcome(u.w, "except", "none", ExcSpawn)
      ELSE Outcome(u.w, "extracting", "none", NoExc)

\* start_scan_exit returning False on a non-zero exit code without the
\* update to FAILED.
start_scan_exitWithoutFailed(w, id, returncode, stderr) ==
    IF returncode = 0
    THEN LET u == update_scan_status(w, id, PROCESSING, 80, MsgProcessing, PyNone)
         IN IF u.raised THEN Outcome(u.w, "except", "none", ExcNoSuchFile)
            ELSE Outcome(u.w, "importing", "none", NoExc)
    ELSE Outcome(w, "done", "false", NoExc)

\* start_scan from the return of process.communicate() to the call of
\* _import_scan_to_db (returncode 0) or to the end (returncode # 0).
start_scan_exit(w, id, returncode, stderr) ==
    LET u == IF returncode = 0
             THEN update_scan_status(w, id, PROCESSING, 80, MsgProcessing, PyNone)
             ELSE update_scan_status(w, id, FAILED, 0, PyNone, ErrScanFailed(stderr))
    IN IF u.raised THEN Outcome(u.w, "except", "none", ExcNoSuchFile)
       ELSE IF returncode = 0 THEN Outcome(u.w, "importing", "none", NoExc)
       ELSE Outcome(u.w, "done", "false", NoExc)

\* _import_scan_to_db.  imported is what import_tenant_analysis returns.
import_scan_to_db(w, id, imported) ==
    LET g == get_scan(w, id) IN
    IF g.raised THEN [w |-> w, success |-> FALSE, raised |-> TRUE]
    ELSE IF g.val = PyNone THEN [w |-> g.w, success |-> FALSE, raised |-> FALSE]
    ELSE
      LET w1 == [g.w EXCEPT !.fs = makedirs(@, ScanDir(g.val))] IN
      IF imported
      THEN LET u == update_scan_status(w1, id, PROCESSING, 90, MsgImported, PyNone)
           IN [w |-> u.w, success |-> ~u.raised, raised |-> FALSE]
      ELSE [w |-> w1, success |-> FALSE, raised |-> FALSE]

\* start_scan_import with the scan COMPLETED whatever the import returned.
start_scan_importAlwaysCompleted(w, id, imported) ==
    LET i == import_scan_to_db(w, id, imported) IN
    IF i.raised THEN Outcome(i.w, "except", "none", ExcNoSuchFile)
    ELSE
      LET u == update_scan_status(i.w, id, COMPLETED, 100, MsgCompleted, PyNone)
      IN IF u.raised THEN Outcome(u.w, "except", "none", ExcNoSuchFile)
         ELSE Outcome(u.w, "done", IF i.success THEN "true" ELSE "false", NoExc)

\* start_scan from the call of _import_scan_to_db to its end.
start_scan_import(w, id, imported) ==
    LET i == import_scan_to_db(w, id, imported) IN
    IF i.raised THEN Outcome(i.w, "except", "none", ExcNoSuchFile)
    ELSE
      LET u == IF i.success
               THEN update_scan_status(i.w, id, COMPLETED, 100, MsgCompleted, PyNone)
               ELSE update_scan_status(i.w, id, FAILED, 80, PyNone, ErrImport)
      IN IF u.raised THEN Outcome(u.w, "except", "none", ExcNoSuchFile)
         ELSE Outcome(u.w, "done", IF i.success THEN "true" ELSE "false", NoExc)

\* start_scan's except branch.
start_scan_except(w, id, exc) ==
    LET u == update_scan_status(w, id, FAILED, 0, PyNone, ErrException(exc)) IN
    IF u.raised THEN Outcome(u.w, "wrapper", "raised", ExcNoSuchFile)
    ELSE Outcome(u.w, "done", "false", NoExc)

\* run_scan_background's except branch.
run_scan_background_except(w, id, exc) ==
    LET u == update_scan_status(w, id, FAILED, NoProgress, PyNone, ErrBackground(exc))
    IN Outcome(u.w, "done", "raised", NoExc)

\* NewScanId repeating the id of the scan created last.
NewScanIdRepeated == IF tasks = <<>> THEN Len(tasks) + 1 ELSE Len(tasks)

\* uuid4()[:8]: an id no scan was given before.
NewScanId == Len(tasks) + 1

\* create_scan: the world after it, or raised when mkdir fails because
\* base_scan_dir is gone.
create_scan(w, id, scan_name) ==
    LET name == SanitizeName(scan_name) IN
    IF name # BaseDir /\ w.fs[BaseDir] = NoDir
    THEN [w |-> w, raised |-> TRUE]
    ELSE LET scan_metadata == NewScanMetadata(id, name, id)
         IN [w |-> [cache |-> [w.cache EXCEPT ![id] = scan_metadata],
                    fs |-> [makedirs(w.fs, name) EXCEPT ![name] = scan_metadata]],
             raised |-> FALSE]

\* Cancellable with PROCESSING accepted too.
CancellableWhileProcessing(status) == status \in {PENDING, RUNNING, PROCESSING}

\* cancel_scan: the statuses the endpoint accepts.
Cancellable(status) == status \in {PENDING, RUNNING}

\* ---------------------------------------------------------------------
\* The endpoints of api/main.py: the world after the request and the HTTP
\* status code of the response (500 for an exception the handler lets out).
\* ---------------------------------------------------------------------

\* POST /api/scans; the background task is added when scheduled holds.
api_create_scan(w, id, scan_name) ==
    LET c == create_scan(w, id, scan_name) IN
    IF c.raised THEN [w |-> w, code |-> 500, scheduled |-> FALSE]
    ELSE [w |-> get_scan(c.w, id).w, code |-> 200, scheduled |-> TRUE]

\* GET /api/scans/{scan_id}
api_get_scan(w, id) ==
    LET g == get_scan(w, id) IN
    [w |-> g.w,
     code |-> IF g.raised THEN 500 ELSE IF g.val = PyNone THEN 404 ELSE 200]

\* GET /api/scans
api_list_scans(w) ==
    LET l == list_scans(w) IN
    [scans |-> l.val, code |-> IF l.raised THEN 500 ELSE 200]

\* POST /api/scans/{scan_id}/cancel
cancel_scan(w, id) ==
    LET g == get_scan(w, id) IN
    IF g.raised THEN [w |-> g.w, code |-> 500]
    ELSE IF g.val = PyNone THEN [w |-> g.w, code |-> 404]
    ELSE IF ~Cancellable(g.val.status) THEN [w |-> g.w, code |-> 400]
    ELSE LET u == update_scan_status(g.w, id, CANCELLED, NoProgress,
                                     MsgCancelled, PyNone)
         IN [w |-> u.w, code |-> IF u.raised THEN 500 ELSE 200]

\* ScanManager.delete_scan
delete_scan(w, id) ==
    LET g == get_scan(w, id) IN
    IF g.raised THEN [w |-> g.w, ok |-> FALSE, raised |-> TRUE]
    ELSE IF g.val = PyNone THEN [w |-> g.w, ok |-> FALSE, raised |-> FALSE]
    ELSE [w |-> [g.w EXCEPT
                   !.cache[id] = PyNone,
                   !.fs = IF DirExists(@, ScanDir(g.val))
                          THEN rmtree(@, ScanDir(g.val)) ELSE @],
          ok |-> TRUE, raised |-> FALSE]

\* DELETE /api/scans/{scan_id}
api_delete_scan(w, id) ==
    LET d == delete_scan(w, id) IN
    [w |-> d.w, code |-> IF d.raised THEN 500 ELSE IF d.ok THEN 200 ELSE 404]

\* ---------------------------------------------------------------------
\* The store (database/schema.py) and the importer
\* (database/json_importer.py)
\* ---------------------------------------------------------------------
\* A JSON value is a record tagged by py: "dict" (one field per key, Absent
\* for a key the object does not have), "list", "str", "int", "None".
\* Unparsable is the content of a file json.load raises on.  Of each row
\* the key, the name and the references to other rows are kept; the
\* descriptive columns (type, data_type, expression, is_hidden, ...) and
\* the CURRENT_TIMESTAMP columns are left out.
Absent == [py |-> "absent"]
Unparsable == [py |-> "unparsable"]
PyInt(n) == [py |-> "int", v |-> n]
PyList(items) == [py |-> "list", items |-> items]

isdict(x) == x.py = "dict"

\* dict.get(key, default)
get(v, default) == IF v = Absent THEN default ELSE v

\* str(x) of an id or a relationship endpoint
str(x) ==
    IF x.py = "int" THEN PyStr(<<ToString(x.v)>>)
    ELSE IF x = PyNone THEN PyStr(<<"None">>)
    ELSE x

\* What SQLite stores in a TEXT column.
TextAffinity(x) == IF x.py = "int" THEN PyStr(<<ToString(x.v)>>) ELSE x

\* table.get('name') or 'Unknown'
NameOrUnknown(name) ==
    IF Truthy(get(name, PyNone)) THEN name ELSE PyStr(<<"Unknown">>)

\* The store before create_schema has run, and right after.  uuids is the
\* number of uuid4() values used as ids so far: each is a new one.
NoDb == [py |-> "NoDb"]

EmptyDb ==
    [py |-> "db",
     workspaces |-> {}, datasets |-> {}, tables |-> {}, columns |-> {},
     measures |-> {}, relationships |-> {},
     analysis_runs |-> <<>>,
     uuids |-> 0]

\* CREATE TABLE IF NOT EXISTS ...
create_schema(d) == IF d = NoDb THEN EmptyDb ELSE d

\* INSERT OR REPLACE: a row replaces the row with the same primary key.
upsert(rows, row) == {r \in rows : r.id # row.id} \cup {row}

\* The rows of the six metadata tables.
Rows(d) ==
    IF d = NoDb THEN <<{}, {}, {}, {}, {}, {}>>
    ELSE <<d.workspaces, d.datasets, d.tables, d.columns, d.measures, d.relationships>>

\* Files of an artifact directory.
TenantSummaryFile == <<"tenant_summary.json">>

\* f"{workspace['name'].replace(' ', '_')}_{dataset['name'].replace(' ', '_')}_metadata.json"
MetadataFile(workspace_name, dataset_name) ==
    ReplaceSpaces(workspace_name.parts) \o <<"_">>
    \o ReplaceSpaces(dataset_name.parts) \o <<"_metadata.json">>

\* pbi_tenant_analyzer: the file the extraction saves the metadata of a
\* dataset to,
\* f"{workspace_name}_{dataset_name}".replace(" ", "_").replace("/", "_")
\* followed by "_metadata.json".
ReplaceSlashes(s) == [i \in 1..Len(s) |-> IF s[i] = "/" THEN "_" ELSE s[i]]

DatasetFile(workspace_name, dataset_name) ==
    ReplaceSlashes(ReplaceSpaces(workspace_name.parts \o <<"_">> \o dataset_name.parts))
    \o <<"_metadata.json">>

\* os.path.exists
exists(files, path) == path \in DOMAIN files /\ files[path] # NoFile

\* The items of dict.get(key, [])
Items(v) == get(v, PyList(<<>>)).items

\* str(entity.get('id', uuid.uuid4()))
EntityId(entity_id, uuids) ==
    IF entity_id = Absent
    THEN [id |-> PyStr(<<"uuid4-", ToString(uuids + 1)>>), uuids |-> uuids + 1]
    ELSE [id |-> str(entity_id), uuids |-> uuids]

\* INSERT OR REPLACE INTO columns
InsertColumn(d, column, table_id) ==
    LET n == EntityId(column.id, d.uuids)
        row == [id |-> n.id, name |-> NameOrUnknown(column.name),
                table_id |-> table_id]
    IN [d EXCEPT !.uuids = n.uuids, !.columns = upsert(@, row)]

\* _process_dataset_metadata, the loop over a table's columns.  raised: an
\* exception left the loop (a column that is not an object).
RECURSIVE process_columns(_, _, _)
process_columns(d, columns, table_id) ==
    IF columns = <<>> THEN [db |-> d, raised |-> FALSE]
    ELSE IF ~isdict(Head(columns)) THEN [db |-> d, raised |-> TRUE]
    ELSE With(InsertColumn(d, Head(columns), table_id),
              LAMBDA d1 : process_columns(d1, Tail(columns), table_id))

\* INSERT OR REPLACE INTO tables: the store and the table_id used.
InsertTable(d, table, dataset_id) ==
    LET n == EntityId(table.id, d.uuids)
        row == [id |-> n.id, name |-> NameOrUnknown(table.name),
                dataset_id |-> dataset_id]
    IN [db |-> [d EXCEPT !.uuids = n.uuids, !.tables = upsert(@, row)],
        table_id |-> n.id]

\* _process_dataset_metadata, the loop over the tables.
RECURSIVE process_tables(_, _, _)
process_tables(d, tables, dataset_id) ==
    IF tables = <<>> THEN [db |-> d, raised |-> FALSE]
    ELSE IF ~isdict(Head(tables)) THEN [db |-> d, raised |-> TRUE]
    ELSE With(InsertTable(d, Head(tables), dataset_id), LAMBDA t :
         With(process_columns(t.db, Items(Head(tables).columns), t.table_id),
              LAMBDA c :
                IF c.raised THEN c
                ELSE process_tables(c.db, Tail(tables), dataset_id)))

\* SELECT id FROM tables WHERE name = ? AND dataset_id = ?, fetchone()
TableIdByName(d, name, dataset_id) ==
    LET found == {r \in d.tables : r.name = name /\ r.dataset_id = dataset_id}
    IN IF found = {} THEN PyNone ELSE (CHOOSE r \in found : TRUE).id

\* INSERT OR REPLACE INTO measures, after the table_id was found.
InsertMeasure(d, measure, dataset_id) ==
    LET n == EntityId(measure.id, d.uuids)
        direct == get(measure.table_id, PyNone)
        table_id == IF direct = PyNone /\ measure.table_name # Absent
                    THEN TableIdByName(d, measure.table_name, dataset_id)
                    ELSE direct
        row == [id |-> n.id, name |-> NameOrUnknown(measure.name),
                dataset_id |-> dataset_id,
                table_id |-> TextAffinity(table_id)]
    IN [d EXCEPT !.uuids = n.uuids, !.measures = upsert(@, row)]

\* _process_dataset_metadata, the loop over the measures.
RECURSIVE process_measures(_, _, _)
process_measures(d, measures, dataset_id) ==
    IF measures = <<>> THEN [db |-> d, raised |-> FALSE]
    ELSE IF ~isdict(Head(measures)) THEN [db |-> d, raised |-> TRUE]
    ELSE With(InsertMeasure(d, Head(measures), dataset_id),
              LAMBDA d1 : process_measures(d1, Tail(measures), dataset_id))

\* One end of a relationship: the name form, else the id form, as a string.
Endpoint(by_name, by_id) ==
    LET named == get(by_name, PyNone)
        end == IF named = PyNone /\ by_id # Absent THEN by_id ELSE named
    IN IF end # PyNone THEN str(end) ELSE PyStr(<<"Unknown">>)

\* INSERT OR REPLACE INTO relationships
InsertRelationship(d, relationship, dataset_id) ==
    LET n == EntityId(relationship.id, d.uuids)
        row == [id |-> n.id,
                dataset_id |-> dataset_id,
                from_table |-> Endpoint(relationship.from_table,
                                        relationship.from_table_id),
                from_column |-> Endpoint(relationship.from_column,
                                         relationship.from_column_id),
                to_table |-> Endpoint(relationship.to_table,
                                      relationship.to_table_id),
                to_column |-> Endpoint(relationship.to_column,
                                       relationship.to_column_id)]
    IN [d EXCEPT !.uuids = n.uuids, !.relationships = upsert(@, row)]

\* _process_dataset_metadata, the loop over the relationships.
RECURSIVE process_relationships(_, _, _)
process_relationships(d, relationships, dataset_id) ==
    IF relationships = <<>> THEN [db |-> d, raised |-> FALSE]
    ELSE IF ~isdict(Head(relationships)) THEN [db |-> d, raised |-> TRUE]
    ELSE With(InsertRelationship(d, Head(relationships), dataset_id),
              LAMBDA d1 : process_relationships(d1, Tail(relationships), dataset_id))

\* HasError with the check of the error field left out.
HasErrorNever(metadata) == FALSE

\* 'error' in metadata
HasError(metadata) == metadata.error # Absent

\* _process_dataset_metadata: the store after it.  Every exception is caught
\* at the end of the method, so what was stored before it stays and the
\* rest of the artifact is not processed.
process_dataset_metadata(d, files, metadata_path, dataset_id) ==
    LET metadata == files[metadata_path] IN
    IF metadata = Unparsable \/ ~isdict(metadata) THEN d
    ELSE IF HasError(metadata) THEN d
    ELSE
      With(process_tables(d, Items(metadata.tables), dataset_id), LAMBDA t :
        IF t.raised THEN t.db
        ELSE
          With(process_measures(t.db, Items(metadata.measures), dataset_id),
               LAMBDA m :
                 IF m.raised THEN m.db
                 ELSE process_relationships(m.db, Items(metadata.relationships),
                                            dataset_id).db))

\* INSERT OR REPLACE INTO datasets, then the detail artifact of the dataset
\* when there is one.
InsertDataset(d, files, workspace, dataset) ==
    LET row == [id |-> dataset.id, name |-> dataset.name,
                workspace_id |-> workspace.id]
        metadata_path == MetadataFile(workspace.name, dataset.name)
    IN With([d EXCEPT !.datasets = upsert(@, row)], LAMBDA d1 :
         IF exists(files, metadata_path)
         THEN process_dataset_metadata(d1, files, metadata_path, dataset.id)
         ELSE d1)

\* import_tenant_analysis, the loop over a workspace's datasets.  raised:
\* dataset['id'] or dataset['name'] raised, or the row was refused (name
\* NOT NULL).  count is the number of datasets inserted.
RECURSIVE process_datasets(_, _, _, _)
process_datasets(d, files, workspace, datasets) ==
    IF datasets = <<>> THEN [db |-> d, raised |-> FALSE, count |-> 0]
    ELSE IF \/ ~isdict(Head(datasets))
            \/ Head(datasets).id = Absent
            \/ Head(datasets).name \in {Absent, PyNone}
    THEN [db |-> d, raised |-> TRUE, count |-> 0]
    ELSE With(InsertDataset(d, files, workspace, Head(datasets)), LAMBDA d1 :
         With(process_datasets(d1, files, workspace, Tail(datasets)),
              LAMBDA rest : [rest EXCEPT !.count = @ + 1]))

\* import_tenant_analysis, the loop over the workspaces.
RECURSIVE process_workspaces(_, _, _)
process_workspaces(d, files, workspaces) ==
    IF workspaces = <<>>
    THEN [db |-> d, raised |-> FALSE, workspaces_count |-> 0, datasets_count |-> 0]
    ELSE IF \/ ~isdict(Head(workspaces))
            \/ Head(workspaces).id = Absent
            \/ Head(workspaces).name \in {Absent, PyNone}
    THEN [db |-> d, raised |-> TRUE, workspaces_count |-> 0, datasets_count |-> 0]
    ELSE
      LET workspace == Head(workspaces)
          row == [id |-> workspace.id, name |-> workspace.name]
      IN With(process_datasets([d EXCEPT !.workspaces = upsert(@, row)], files,
                               workspace, Items(workspace.datasets)),
              LAMBDA ds :
                IF ds.raised
                THEN [db |-> ds.db, raised |-> TRUE,
                      workspaces_count |-> 0, datasets_count |-> 0]
                ELSE With(process_workspaces(ds.db, files, Tail(workspaces)),
                          LAMBDA rest :
                            [rest EXCEPT !.workspaces_count = @ + 1,
                                         !.datasets_count = @ + ds.count]))

\* The workspaces of a tenant summary: the 'workspaces' of an object, or
\* the list itself, or nothing.
Workspaces(tenant_data) ==
    IF isdict(tenant_data) /\ tenant_data.workspaces # Absent
    THEN tenant_data.workspaces.items
    ELSE IF tenant_data.py = "list" THEN tenant_data.items
    ELSE <<>>

\* The analysis_runs row INSERT INTO analysis_runs (source_directory,
\* tenant_id) makes: the counts and success take their defaults.
NewRun ==
    [workspaces_count |-> 0, datasets_count |-> 0, tables_count |-> 0,
     columns_count |-> 0, measures_count |-> 0, relationships_count |-> 0,
     success |-> 1]

\* UPDATE analysis_runs SET success = 0 WHERE id = run_id
MarkFailed(d, run_id) == [d EXCEPT !.analysis_runs[run_id].success = 0]

\* UPDATE analysis_runs SET the six counts WHERE id = run_id: two counters
\* of the loop and four SELECT COUNT(*).
SetCounts(d, run_id, workspaces_count, datasets_count) ==
    [d EXCEPT !.analysis_runs[run_id] =
        [@ EXCEPT
           !.workspaces_count = workspaces_count,
           !.datasets_count = datasets_count,
           !.tables_count = Cardinality(d.tables),
           !.columns_count = Cardinality(d.columns),
           !.measures_count = Cardinality(d.measures),
           !.relationships_count = Cardinality(d.relationships)]]

\* import_tenant_analysis followed by the commit of __exit__: the store
\* after it and the value returned.
import_tenant_analysis(d, files) ==
    LET run_id == Len(d.analysis_runs) + 1
        d0 == [d EXCEPT !.analysis_runs = Append(@, NewRun)]
    IN
    IF ~exists(files, TenantSummaryFile) THEN [db |-> d0, ok |-> FALSE]
    ELSE IF files[TenantSummaryFile] = Unparsable
    THEN [db |-> MarkFailed(d0, run_id), ok |-> FALSE]
    ELSE With(process_workspaces(d0, files, Workspaces(files[TenantSummaryFile])),
              LAMBDA p :
                IF p.raised THEN [db |-> MarkFailed(p.db, run_id), ok |-> FALSE]
                ELSE [db |-> SetCounts(p.db, run_id, p.workspaces_count,
                                       p.datasets_count),
                      ok |-> TRUE])

\* import_from_directory after create_schema, as json_importer's main and
\* _import_scan_to_db call them.
import_from_directory(d, files) == import_tenant_analysis(create_schema(d), files)

\* ---------------------------------------------------------------------
\* Artifact directories
\* ---------------------------------------------------------------------
\* The objects pbi_tenant_analyzer.py writes, with the keys the importer
\* reads.  A relationship is written in the id form.
Column(id) == [py |-> "dict", id |-> id, name |-> PyStr(<<"c">>)]

Table(id, name, columns) ==
    [py |-> "dict", id |-> id, name |-> name, columns |-> PyList(columns)]

Measure(id, table_id, table_name) ==
    [py |-> "dict", id |-> id, name |-> PyStr(<<"m">>),
     table_id |-> table_id, table_name |-> table_name]

Relationship(id, from_table_id, from_column_id, to_table_id, to_column_id) ==
    [py |-> "dict", id |-> id,
     from_table |-> Absent, from_column |-> Absent,
     to_table |-> Absent, to_column |-> Absent,
     from_table_id |-> from_table_id, from_column_id |-> from_column_id,
     to_table_id |-> to_table_id, to_column_id |-> to_column_id]

DatasetMetadata(error, tables, measures, relationships) ==
    [py |-> "dict", error |-> error, tables |-> tables,
     measures |-> measures, relationships |-> relationships]

Dataset(id, name) == [py |-> "dict", id |-> id, name |-> name]

Workspace(id, name, datasets) ==
    [py |-> "dict", id |-> id, name |-> name, datasets |-> PyList(datasets)]

TenantSummary(workspaces) == [py |-> "dict", workspaces |-> workspaces]

\* Display names, as sequences of characters.
W1Name == PyStr(<<"W", " ", "1">>)
W2Name == PyStr(<<"W", "2">>)
D1Name == PyStr(<<"D", " ", "1">>)
D2Name == PyStr(<<"D", "2">>)

D1 == Dataset(PyStr(<<"d1">>), D1Name)
D2 == Dataset(PyStr(<<"d2">>), D2Name)

\* Tenant summaries: two workspaces, one with two datasets and one with
\* none; the old list format; a workspace that is null between two good
\* ones; an object without 'workspaces'.
SummaryDict ==
    TenantSummary(PyList(<<Workspace(PyStr(<<"w1">>), W1Name, <<D1, D2>>),
                           Workspace(PyStr(<<"w2">>), W2Name, <<>>)>>))

SummaryList == PyList(<<Workspace(PyStr(<<"w1">>), W1Name, <<D1>>)>>)

SummaryMalformed ==
    TenantSummary(PyList(<<Workspace(PyStr(<<"w2">>), W2Name, <<>>),
                           PyNone,
                           Workspace(PyStr(<<"w1">>), W1Name, <<D1, D2>>)>>))

SummaryOther == TenantSummary(Absent)

Summaries ==
    {NoFile, Unparsable, SummaryDict, SummaryList, SummaryMalformed, SummaryOther}

\* Detail artifacts.  DetailGood: three tables with five columns, two
\* measures (one naming its table by id, one by name), one relationship.
DetailGood ==
    DatasetMetadata(
        Absent,
        PyList(<<Table(PyInt(1), PyStr(<<"T1">>), <<Column(PyInt(11)), Column(PyInt(12))>>),
                 Table(PyInt(2), PyStr(<<"T2">>), <<Column(PyInt(21)), Column(PyInt(22))>>),
                 Table(PyInt(3), PyNone, <<Column(PyInt(31))>>)>>),
        PyList(<<Measure(PyInt(41), PyInt(1), Absent),
                 Measure(PyInt(42), Absent, PyStr(<<"T2">>))>>),
        PyList(<<Relationship(PyInt(51), PyInt(1), PyInt(11), PyInt(2), PyInt(21))>>))

\* What extract_dataset_metadata returns when the extraction failed, and
\* an artifact that has both an error and tables.
DetailError == DatasetMetadata(PyStr(<<"boom">>), Absent, Absent, Absent)

DetailErrorWithTables == [DetailGood EXCEPT !.error = PyStr(<<"boom">>)]

\* A table that is null between two good ones.
DetailMalformed ==
    DatasetMetadata(
        Absent,
        PyList(<<Table(PyInt(1), PyStr(<<"T1">>), <<Column(PyInt(11))>>),
                 PyNone,
                 Table(PyInt(2), PyStr(<<"T2">>), <<Column(PyInt(21))>>)>>),
        PyList(<<Measure(PyInt(41), PyInt(1), Absent)>>),
        PyList(<<>>))

\* Entities without an 'id'.
DetailNoIds ==
    DatasetMetadata(
        Absent,
        PyList(<<Table(Absent, PyStr(<<"T1">>), <<Column(Absent)>>)>>),
        PyList(<<Measure(Absent, Absent, PyStr(<<"T1">>))>>),
        PyList(<<Relationship(Absent, PyInt(1), PyInt(11), PyInt(1), PyInt(11))>>))

\* Another dataset's model, whose table, column and measure carry ids that
\* DetailGood uses too (ids are numbered per model).
DetailColliding ==
    DatasetMetadata(
        Absent,
        PyList(<<Table(PyInt(1), PyStr(<<"U1">>), <<Column(PyInt(11))>>)>>),
        PyList(<<Measure(PyInt(41), PyInt(1), Absent)>>),
        PyList(<<>>))

Details1 ==
    {NoFile, Unparsable, DetailGood, DetailError, DetailErrorWithTables,
     DetailMalformed, DetailNoIds}

Details2 == {NoFile, DetailColliding, DetailError}

File1 == MetadataFile(W1Name, D1Name)
File2 == MetadataFile(W1Name, D2Name)

FileNames == {TenantSummaryFile, File1, File2}

Files(summary, detail1, detail2) ==
    [f \in FileNames |->
        IF f = TenantSummaryFile THEN summary
        ELSE IF f = File1 THEN detail1 ELSE detail2]

NoFiles == Files(NoFile, NoFile, NoFile)

\* The directories an extraction may leave behind.
ArtifactSets ==
    {Files(s, a, b) : s \in Summaries, a \in Details1, b \in Details2}

\* Number of runs of the importer on one store that are explored.
MaxRuns == 2

\* ---------------------------------------------------------------------
\* The server
\* ---------------------------------------------------------------------

\* No background task is inside a synchronous section: one event loop runs
\* the endpoints and the tasks, so nothing else runs until the task awaits
\* or ends.
SyncPc == {"importing", "except", "wrapper"}

NoSync == \A t \in DOMAIN tasks : tasks[t].pc \notin SyncPc

SetWorld(w) ==
    /\ active_scans' = w.cache
    /\ fs' = w.fs

\* The server after ScanManager(): no scan, an empty base directory.
InitServer ==
    /\ active_scans = [id \in ScanIds |-> PyNone]
    /\ fs = [d \in DirNames |-> IF d = BaseDir THEN NoFile ELSE NoDir]
    /\ tasks = <<>>
    /\ json_files = NoFiles
    /\ db = NoDb

Init ==
    /\ InitServer
    /\ requested = PyNone
    /\ stored_name = PyNone
    /\ display_name = PyNone
    /\ dataset_file = PyNone

\* A client posts /api/scans.
CreateScan(scan_name) ==
    /\ NoSync
    /\ Len(tasks) < MaxScans
    /\ LET r == api_create_scan(World, NewScanId, scan_name) IN
       /\ SetWorld(r.w)
       /\ tasks' = IF r.scheduled
                   THEN Append(tasks, [scan_id |-> NewScanId, pc |-> "scheduled",
                                       result |-> "none", exc |-> NoExc])
                   ELSE tasks
    /\ UNCHANGED <<importVars, nameVars>>

\* A client gets /api/scans/{scan_id}.
GetScan(id) ==
    /\ NoSync
    /\ SetWorld(api_get_scan(World, id).w)
    /\ UNCHANGED <<tasks, importVars, nameVars>>

\* A client posts /api/scans/{scan_id}/cancel.
CancelScan(id) ==
    /\ NoSync
    /\ SetWorld(cancel_scan(World, id).w)
    /\ UNCHANGED <<tasks, importVars, nameVars>>

\* A client deletes /api/scans/{scan_id}.
DeleteScan(id) ==
    /\ NoSync
    /\ SetWorld(api_delete_scan(World, id).w)
    /\ UNCHANGED <<tasks, importVars, nameVars>>

Step(t, r) ==
    /\ SetWorld(r.w)
    /\ tasks' = [tasks EXCEPT ![t].pc = r.pc, ![t].result = r.result, ![t].exc = r.exc]

\* run_scan_background starts: start_scan up to its await.
StartScan(t, spawned) ==
    /\ NoSync
    /\ tasks[t].pc = "scheduled"
    /\ Step(t, start_scan_begin(World, tasks[t].scan_id, spawned))
    /\ UNCHANGED <<importVars, nameVars>>

\* The extraction process exits and start_scan resumes.
ProcessExit(t, returncode, stderr) ==
    /\ NoSync
    /\ tasks[t].pc = "extracting"
    /\ Step(t, start_scan_exit(World, tasks[t].scan_id, returncode, stderr))
    /\ UNCHANGED <<importVars, nameVars>>

\* The import and the rest of start_scan.
ImportScan(t, imported) ==
    /\ tasks[t].pc = "importing"
    /\ Step(t, start_scan_import(World, tasks[t].scan_id, imported))
    /\ UNCHANGED <<importVars, nameVars>>

\* The exception reaches start_scan's except branch.
ExceptScan(t) ==
    /\ tasks[t].pc = "except"
    /\ Step(t, start_scan_except(World, tasks[t].scan_id, tasks[t].exc))
    /\ UNCHANGED <<importVars, nameVars>>

\* The exception reaches run_scan_background's except branch.
ExceptBackground(t) ==
    /\ tasks[t].pc = "wrapper"
    /\ Step(t, run_scan_background_except(World, tasks[t].scan_id, tasks[t].exc))
    /\ UNCHANGED <<importVars, nameVars>>

\* The server process dies and is started again: the cache and the
\* background tasks are lost, ScanManager() makes base_scan_dir again.
Restart ==
    /\ active_scans' = [id \in ScanIds |-> PyNone]
    /\ tasks' = [t \in DOMAIN tasks |->
                   IF tasks[t].pc = "done" THEN tasks[t]
                   ELSE [tasks[t] EXCEPT !.pc = "dead", !.exc = NoExc]]
    /\ fs' = [fs EXCEPT ![BaseDir] = IF @ = NoDir THEN NoFile ELSE @]
    /\ UNCHANGED <<importVars, nameVars>>

\* The worlds the operations that can run now would leave.
Outcomes ==
    {api_create_scan(World, NewScanId, n).w :
        n \in {m \in RequestedNames : NoSync /\ Len(tasks) < MaxScans}}
    \cup {cancel_scan(World, id).w : id \in {i \in ScanIds : NoSync}}
    \cup UNION {LET id == tasks[t].scan_id  pc == tasks[t].pc IN
                IF pc = "scheduled" /\ NoSync
                THEN {start_scan_begin(World, id, spawned).w : spawned \in BOOLEAN}
                ELSE IF pc = "extracting" /\ NoSync
                THEN {start_scan_exit(World, id, rc, stderr).w :
                         rc \in {0, 1}, stderr \in StderrTexts}
                ELSE IF pc = "importing"
                THEN {start_scan_import(World, id, imported).w : imported \in BOOLEAN}
                ELSE IF pc = "except"
                THEN {start_scan_except(World, id, tasks[t].exc).w}
                ELSE IF pc = "wrapper"
                THEN {run_scan_background_except(World, id, tasks[t].exc).w}
                ELSE {} : t \in DOMAIN tasks}

\* The server process dies while an operation writes a metadata file, and
\* is started again: open(metadata_path, 'w') has emptied the file and
\* json.dump has not written the record to its end.
CrashMidWrite ==
    \E w \in Outcomes :
       \E d \in {e \in DirNames : IsRecord(w.fs[e]) /\ w.fs[e] # fs[e]} :
          /\ active_scans' = [id \in ScanIds |-> PyNone]
          /\ tasks' = [t \in DOMAIN tasks |->
                         IF tasks[t].pc = "done" THEN tasks[t]
                         ELSE [tasks[t] EXCEPT !.pc = "dead", !.exc = NoExc]]
          /\ fs' = [w.fs EXCEPT ![d] = Truncated]
          /\ UNCHANGED <<importVars, nameVars>>

Next ==
    \/ \E n \in RequestedNames : CreateScan(n)
    \/ \E id \in ScanIds : GetScan(id)
    \/ \E id \in ScanIds : CancelScan(id)
    \/ \E id \in ScanIds : DeleteScan(id)
    \/ \E t \in DOMAIN tasks, spawned \in BOOLEAN : StartScan(t, spawned)
    \/ \E t \in DOMAIN tasks, rc \in {0, 1}, stderr \in StderrTexts :
          ProcessExit(t, rc, stderr)
    \/ \E t \in DOMAIN tasks, imported \in BOOLEAN : ImportScan(t, imported)
    \/ \E t \in DOMAIN tasks : ExceptScan(t)
    \/ \E t \in DOMAIN tasks : ExceptBackground(t)
    \/ Restart
    \/ CrashMidWrite

Spec == Init /\ [][Next]_vars

\* One step of the background task t.
TaskStep(t) ==
    /\ t \in DOMAIN tasks
    /\ \/ \E spawned \in BOOLEAN : StartScan(t, spawned)
       \/ \E rc \in {0, 1}, stderr \in StderrTexts : ProcessExit(t, rc, stderr)
       \/ \E imported \in BOOLEAN : ImportScan(t, imported)
       \/ ExceptScan(t)
       \/ ExceptBackground(t)

\* The event loop runs every task it holds, and the extraction process of
\* every task exits.
SpecFair == Spec /\ \A t \in ScanIds : WF_vars(TaskStep(t))

\* ---------------------------------------------------------------------
\* One scan with its artifact directory and its store
\* ---------------------------------------------------------------------

\* The scan directory of the scan SpecImport creates.
ImportScanName == <<"a">>

\* The artifact directory is filled (by a run of pbi_tenant_analyzer.py on
\* that directory).
WriteArtifacts(files) ==
    /\ NoSync
    /\ DirExists(fs, SanitizeName(ImportScanName))
    /\ json_files = NoFiles
    /\ json_files' = files
    /\ UNCHANGED <<active_scans, fs, tasks, db, nameVars>>

\* The import step of the background task, with the importer run on the
\* scan's json_dir and db_path when _import_scan_to_db finds the scan.
ImportArtifacts(t) ==
    /\ tasks[t].pc = "importing"
    /\ LET id == tasks[t].scan_id
           g == get_scan(World, id)
           found == ~g.raised /\ g.val # PyNone
           r == import_from_directory(db, json_files)
       IN /\ Step(t, start_scan_import(World, id, found /\ r.ok))
          /\ db' = IF found THEN r.db ELSE db
    /\ UNCHANGED <<json_files, nameVars>>

\* json_importer.py run from the command line on the same directory and
\* store.
ImportFromDirectory ==
    /\ NoSync
    /\ DirExists(fs, SanitizeName(ImportScanName))
    /\ Len(create_schema(db).analysis_runs) < MaxRuns
    /\ db' = import_from_directory(db, json_files).db
    /\ UNCHANGED <<active_scans, fs, tasks, json_files, nameVars>>

NextImport ==
    \/ tasks = <<>> /\ CreateScan(ImportScanName)
    \/ \E t \in DOMAIN tasks : StartScan(t, TRUE)
    \/ \E t \in DOMAIN tasks : ProcessExit(t, 0, "")
    \/ \E t \in DOMAIN tasks : CancelScan(tasks[t].scan_id)
    \/ \E files \in ArtifactSets : WriteArtifacts(files)
    \/ \E t \in DOMAIN tasks : ImportArtifacts(t)
    \/ ImportFromDirectory

SpecImport == Init /\ [][NextImport]_vars

\* ---------------------------------------------------------------------
\* The name of one create request
\* ---------------------------------------------------------------------

\* Longest requested name that is explored.
MaxNameLen == 4

\* Characters of a requested name: letters, a digit, and one of each kind
\* of character that is not alphanumeric.
NameChars == {"a", "B", "7", " ", "-", "_", "/"}

\* scan_request.scan_name: absent, or a string of at most MaxNameLen
\* characters.
RequestedScanNames ==
    {PyNone} \cup {PyStr(n) : n \in UNION {[1..k -> NameChars] : k \in 0..MaxNameLen}}

\* Values of datetime.now().
Timestamps ==
    {[Y |-> <<"2", "0", "2", "5">>, m |-> <<"0", "1">>, d |-> <<"3", "1">>,
      H |-> <<"2", "3">>, M |-> <<"5", "9">>, S |-> <<"0", "7">>],
     [Y |-> <<"2", "0", "2", "6">>, m |-> <<"1", "1">>, d |-> <<"0", "4">>,
      H |-> <<"0", "8">>, M |-> <<"4", "6">>, S |-> <<"1", "3">>]}

InitNames ==
    /\ InitServer
    /\ requested \in [scan_name : RequestedScanNames, timestamp : Timestamps]
    /\ stored_name = PyNone
    /\ display_name = PyNone
    /\ dataset_file = PyNone

\* create_scan gives the scan its name.
NameScan ==
    /\ stored_name = PyNone
    /\ stored_name' = ScanName(requested.scan_name, requested.timestamp)
    /\ UNCHANGED <<active_scans, fs, tasks, importVars, requested,
                    display_name, dataset_file>>

NextNames == NameScan

SpecNames == InitNames /\ [][NextNames]_vars

\* ---------------------------------------------------------------------
\* The name of one detail file: the extraction writes it, the importer
\* looks it up
\* ---------------------------------------------------------------------
\* Longest display name that is explored.
MaxDisplayLen == 2

\* Display names of workspaces and datasets: a letter, a digit, a space, a
\* slash, an underscore.
DisplayNames ==
    {PyStr(n) : n \in UNION {[1..k -> {"a", "7", " ", "/", "_"}] : k \in 0..MaxDisplayLen}}

InitFiles ==
    /\ InitServer
    /\ requested = PyNone
    /\ stored_name = PyNone
    /\ display_name \in [workspace : DisplayNames, dataset : DisplayNames]
    /\ dataset_file = [written |-> PyNone, looked_up |-> PyNone]

\* The extraction saves the metadata of the dataset.
WriteDetail ==
    /\ dataset_file.written = PyNone
    /\ dataset_file' = [dataset_file EXCEPT
                          !.written = DatasetFile(display_name.workspace,
                                                  display_name.dataset)]
    /\ UNCHANGED <<active_scans, fs, tasks, importVars, requested, stored_name,
                    display_name>>

\* The importer comes to the dataset in the tenant summary.
LookUpDetail ==
    /\ dataset_file.written # PyNone
    /\ dataset_file.looked_up = PyNone
    /\ dataset_file' = [dataset_file EXCEPT
                          !.looked_up = MetadataFile(display_name.workspace,
                                                     display_name.dataset)]
    /\ UNCHANGED <<active_scans, fs, tasks, importVars, requested, stored_name,
                    display_name>>

NextFiles == WriteDetail \/ LookUpDetail

SpecFiles == InitFiles /\ [][NextFiles]_vars

\* ---------------------------------------------------------------------
\* Properties
\* ---------------------------------------------------------------------

Cached(id) == active_scans[id] # PyNone

\* Every metadata record there is, in the cache and in the metadata files.
RecordsNow ==
    {active_scans[id] : id \in {i \in ScanIds : Cached(i)}}
    \cup {fs[d] : d \in {e \in DirNames : IsRecord(fs[e])}}

\* C1: FAILED, COMPLETED and CANCELLED are terminal: once a scan's status is
\* one of them, no step (the background pipeline, cancel, an update) changes
\* it to another value.
C1_TerminalStatusIsFinal ==
    [][\A id \in ScanIds :
          (/\ Cached(id)
           /\ active_scans[id].status \in TerminalStatus
           /\ active_scans'[id] # PyNone)
          => active_scans'[id].status = active_scans[id].status]_vars

\* C2: start on a scan whose status is not PENDING is refused: it starts no
\* run, does not return true and leaves the scan's record, in memory and on
\* disk, as it was.
C2_StartRefusesNonPending ==
    [][\A t \in DOMAIN tasks :
          (/\ \E spawned \in BOOLEAN : StartScan(t, spawned)
           /\ Cached(tasks[t].scan_id)
           /\ active_scans[tasks[t].scan_id].status # PENDING)
          => /\ active_scans'[tasks[t].scan_id] = active_scans[tasks[t].scan_id]
             /\ fs' = fs
             /\ tasks'[t].pc = "done"
             /\ tasks'[t].result # "true"]_vars

\* What a request for this scan id finds now.
Found(id) == get_scan(World, id)

Visible(id) == ~Found(id).raised /\ Found(id).val # PyNone

\* C3: cancel is accepted only for a PENDING or RUNNING scan.  Cancelling a
\* RUNNING scan leaves it CANCELLED with completed_at set and "Scan cancelled
\* by user" as the last log entry (answered 200 and written to disk when the
\* scan directory exists); a cancel of a scan in any other status, a second
\* cancel included, is answered 400 and changes neither the record nor the
\* disk.
C3_CancelOnlyPendingOrRunning ==
    [][\A id \in ScanIds :
          (CancelScan(id) /\ Visible(id))
          => LET before == Found(id).val
                 after == active_scans'[id]
                 code == cancel_scan(World, id).code
             IN /\ code \in {200, 500} <=> before.status \in {PENDING, RUNNING}
                /\ before.status = RUNNING
                   => /\ after.status = CANCELLED
                      /\ after.completed_at # NoTime
                      /\ after.log_messages = Append(before.log_messages, MsgCancelled)
                      /\ DirExists(fs, ScanDir(before))
                         => code = 200 /\ fs'[ScanDir(before)] = after
                /\ before.status \notin {PENDING, RUNNING}
                   => code = 400 /\ after = before /\ fs' = fs]_vars

\* C3 witness: a scan that was cancelled while RUNNING, now CANCELLED, so
\* that every further cancel of it is one of the refused ones.
C3_Witness ==
    \E id \in ScanIds :
        /\ Cached(id)
        /\ active_scans[id].status = CANCELLED
        /\ active_scans[id].log_messages = <<MsgStarting, MsgCancelled>>
        /\ cancel_scan(World, id).code = 400

C5_WriteThrough ==
    NoSync =>
      \A id \in ScanIds :
          Cached(id) => /\ DirExists(fs, ScanDir(active_scans[id]))
                        /\ fs[ScanDir(active_scans[id])] = active_scans[id]

\* C6: completed_at is set exactly once, on reaching a terminal status: it
\* is null in every non-terminal status and, once set, is never overwritten.
C6_CompletedAtSetOnce ==
    [][\A id \in ScanIds :
          (Cached(id) /\ active_scans'[id] # PyNone)
          => /\ active_scans'[id].status \notin TerminalStatus
                => active_scans'[id].completed_at = NoTime
             /\ active_scans[id].completed_at # NoTime
                => active_scans'[id].completed_at = active_scans[id].completed_at]_vars

\* C7: progress is always in 0..100 and no step of a run, its failure and
\* exception paths included, lowers it.
C7_ProgressMonotone ==
    [][\A id \in ScanIds :
          (Cached(id) /\ active_scans'[id] # PyNone)
          => /\ active_scans'[id].progress \in 0..100
             /\ active_scans'[id].progress >= active_scans[id].progress]_vars

\* C8: error_message is set only on FAILED: every record, cached or on disk,
\* whose status is not FAILED has error_message None.
C8_ErrorOnlyOnFailed ==
    \A r \in RecordsNow : r.status # FAILED => r.error_message = PyNone

\* C8 witness: a run has failed and left its error_message while a record
\* that has been updated sits in another status.
C8_Witness ==
    /\ \E r \in RecordsNow : r.status = FAILED /\ r.error_message # PyNone
    /\ \E r \in RecordsNow : r.status \in {PROCESSING, COMPLETED, CANCELLED}

\* C9: every FAILED record, cached or on disk, carries a non-empty
\* error_message and a completed_at, whichever path failed the scan.
C9_FailedCarriesError ==
    \A r \in RecordsNow :
        r.status = FAILED => Truthy(r.error_message) /\ r.completed_at # NoTime

\* C9 witness: a scan failed by the except branch of run_scan_background,
\* the last of the four paths.
C9_Witness ==
    \E id \in ScanIds :
        /\ Cached(id)
        /\ active_scans[id].status = FAILED
        /\ active_scans[id].error_message = ErrBackground(ExcNoSuchFile)

\* C10 as stated: a non-zero exit while the scan is RUNNING makes it FAILED
\* with error_message equal to the captured stderr text, and ends the run
\* without import or retry.
C10_ErrorEqualsStderr ==
    [][\A t \in DOMAIN tasks : \A stderr \in StderrTexts :
          (/\ ProcessExit(t, 1, stderr)
           /\ Cached(tasks[t].scan_id)
           /\ active_scans[tasks[t].scan_id].status = RUNNING)
          => /\ active_scans'[tasks[t].scan_id].status = FAILED
             /\ active_scans'[tasks[t].scan_id].error_message = PyStr(<<stderr>>)
             /\ tasks'[t].pc \notin {"importing", "extracting", "scheduled"}]_vars

\* C10 amended: a non-zero exit while the scan is RUNNING makes it FAILED
\* with completed_at set and error_message "Scan failed: " followed by the
\* stderr text, or by "Unknown error occurred" when stderr is empty.  The
\* run ends there when the metadata file could be written and goes to the
\* exception handlers when not; in neither case does it import or extract
\* again.
C10_ExitNonZeroFails ==
    [][\A t \in DOMAIN tasks :
          /\ \A stderr \in StderrTexts :
               (/\ ProcessExit(t, 1, stderr)
                /\ Cached(tasks[t].scan_id)
                /\ active_scans[tasks[t].scan_id].status = RUNNING)
               => LET id == tasks[t].scan_id
                      text == IF stderr = "" THEN "Unknown error occurred" ELSE stderr
                  IN /\ active_scans'[id].status = FAILED
                     /\ active_scans'[id].completed_at # NoTime
                     /\ active_scans'[id].error_message = PyStr(<<"Scan failed: ", text>>)
                     /\ tasks'[t].pc = IF DirExists(fs, ScanDir(active_scans[id]))
                                       THEN "done" ELSE "except"
                     /\ DirExists(fs, ScanDir(active_scans[id]))
                        => fs'[ScanDir(active_scans[id])] = active_scans'[id]
          /\ tasks[t].pc \in {"done", "except", "wrapper", "dead"}
             => tasks'[t].pc \in {"done", "except", "wrapper", "dead"}]_vars

\* C10 witness: a run ended by a non-zero exit with "boom" on stderr.
C10_Witness ==
    \E t \in DOMAIN tasks :
        /\ tasks[t].pc = "done"
        /\ Cached(tasks[t].scan_id)
        /\ active_scans[tasks[t].scan_id].status = FAILED
        /\ active_scans[tasks[t].scan_id].error_message = ErrScanFailed("boom")

\* C11: no two live scans share a scan directory (and so a metadata file):
\* creating two scans with the same requested name gives the second one a
\* directory of its own, or fails.
C11_NoSharedScanDir ==
    \A id1, id2 \in ScanIds :
        (id1 # id2 /\ Cached(id1) /\ Cached(id2))
        => ScanDir(active_scans[id1]) # ScanDir(active_scans[id2])

\* C12: after a delete that succeeded the scan's directory does not exist,
\* its cache entry is gone and a get of the same id is answered NotFound; a
\* delete of an unknown id is answered NotFound and changes nothing.
C12_DeleteThenNotFound ==
    [][\A id \in ScanIds :
          DeleteScan(id)
          => LET code == api_delete_scan(World, id).code
                 after == [cache |-> active_scans', fs |-> fs']
             IN /\ code = 200
                   => /\ ~DirExists(fs', ScanDir(Found(id).val))
                      /\ active_scans'[id] = PyNone
                      /\ api_get_scan(after, id).code = 404
                /\ ~Visible(id)
                   => code = 404 /\ active_scans' = active_scans /\ fs' = fs]_vars

\* ---------------------------------------------------------------------
\* Properties of the importer, under SpecImport
\* ---------------------------------------------------------------------

\* A step that runs the importer: each run adds its analysis_runs row.
Imports == db' # db

\* The importer run on the artifact directory and the store as they are.
Imported == import_from_directory(db, json_files)

\* C13: for every artifact set, importing it a second time leaves the six
\* metadata tables with the rows the first import left, and adds exactly one
\* analysis_runs row.
C13_ImportIdempotent ==
    With(Imported.db, LAMBDA once :
    With(import_from_directory(once, json_files).db, LAMBDA twice :
        /\ Rows(twice) = Rows(once)
        /\ Len(twice.analysis_runs) = Len(once.analysis_runs) + 1))

\* The elements of a JSON list that are objects, by their place in it.
Objects(items) == {i \in DOMAIN items : isdict(items[i])}

\* The datasets of a tenant summary, <<workspace, dataset>> by place.
SummaryDatasets(workspaces) ==
    UNION {{<<i, j>> : j \in Objects(Items(workspaces[i].datasets))} :
           i \in Objects(workspaces)}

\* The detail artifact of a dataset of the summary: the parsed object, or
\* PyNone when the file is missing, unparsable or reports an error.
DetailOf(files, workspaces, ij) ==
    LET workspace == workspaces[ij[1]]
        dataset == Items(workspace.datasets)[ij[2]]
        path == MetadataFile(workspace.name, dataset.name)
    IN IF /\ exists(files, path)
          /\ files[path] # Unparsable
          /\ isdict(files[path])
          /\ files[path].error = Absent
       THEN files[path] ELSE PyNone

Present(files, workspaces) ==
    {ij \in SummaryDatasets(workspaces) : DetailOf(files, workspaces, ij) # PyNone}

\* The tables, columns, measures and relationships the present detail
\* artifacts hold, by place.
ArtifactTables(files, workspaces) ==
    UNION {{<<ij, k>> : k \in Objects(Items(DetailOf(files, workspaces, ij).tables))} :
           ij \in Present(files, workspaces)}

ArtifactColumns(files, workspaces) ==
    UNION {{<<t, c>> :
              c \in Objects(Items(Items(DetailOf(files, workspaces, t[1]).tables)[t[2]].columns))} :
           t \in ArtifactTables(files, workspaces)}

ArtifactMeasures(files, workspaces) ==
    UNION {{<<ij, k>> : k \in Objects(Items(DetailOf(files, workspaces, ij).measures))} :
           ij \in Present(files, workspaces)}

ArtifactRelationships(files, workspaces) ==
    UNION {{<<ij, k>> : k \in Objects(Items(DetailOf(files, workspaces, ij).relationships))} :
           ij \in Present(files, workspaces)}

\* What the artifact set holds, in the order of the six counts.
ArtifactCounts(files) ==
    LET workspaces == Workspaces(files[TenantSummaryFile])
    IN <<Cardinality(Objects(workspaces)),
         Cardinality(SummaryDatasets(workspaces)),
         Cardinality(ArtifactTables(files, workspaces)),
         Cardinality(ArtifactColumns(files, workspaces)),
         Cardinality(ArtifactMeasures(files, workspaces)),
         Cardinality(ArtifactRelationships(files, workspaces))>>

\* Every entry of every list of the artifact set is an object.
AllObjects(files) ==
    LET workspaces == Workspaces(files[TenantSummaryFile])
        OnlyObjects(v) == Objects(Items(v)) = DOMAIN Items(v)
    IN /\ Objects(workspaces) = DOMAIN workspaces
       /\ \A i \in DOMAIN workspaces : OnlyObjects(workspaces[i].datasets)
       /\ \A ij \in Present(files, workspaces) :
             LET metadata == DetailOf(files, workspaces, ij)
             IN /\ OnlyObjects(metadata.tables)
                /\ OnlyObjects(metadata.measures)
                /\ OnlyObjects(metadata.relationships)
                /\ \A k \in DOMAIN Items(metadata.tables) :
                      OnlyObjects(Items(metadata.tables)[k].columns)

RowCounts(d) == [i \in 1..6 |-> Cardinality(Rows(d)[i])]

RunCounts(run) ==
    <<run.workspaces_count, run.datasets_count, run.tables_count,
      run.columns_count, run.measures_count, run.relationships_count>>

\* C14: a successful import into an empty store leaves one row per
\* workspace and dataset of the summary and per table, column, measure and
\* relationship of each present detail artifact, and adds one analysis_runs
\* row whose six counts are those row counts.
C14_CountsMatchArtifacts ==
    [][(Imports /\ Rows(db) = Rows(NoDb) /\ Imported.ok /\ AllObjects(json_files))
       => LET runs == db'.analysis_runs
          IN /\ Len(runs) = Len(create_schema(db).analysis_runs) + 1
             /\ RowCounts(db') = ArtifactCounts(json_files)
             /\ RunCounts(runs[Len(runs)]) = RowCounts(db')
             /\ runs[Len(runs)].success = 1]_vars

\* The detail artifacts of the directory, and those that carry an error.
DetailFiles == FileNames \ {TenantSummaryFile}

CarriesError(files, f) ==
    /\ files[f] \notin {NoFile, Unparsable}
    /\ isdict(files[f])
    /\ files[f].error # Absent

\* The datasets of the summary whose detail artifact is the file f.
DatasetsOfFile(files, f) ==
    LET workspaces == Workspaces(files[TenantSummaryFile])
    IN {Items(workspaces[ij[1]].datasets)[ij[2]] :
          ij \in {ij \in SummaryDatasets(workspaces) :
                    MetadataFile(workspaces[ij[1]].name,
                                 Items(workspaces[ij[1]].datasets)[ij[2]].name) = f}}

\* C15: a detail artifact with an error field is skipped entirely: the
\* import ends as it does without that file (it succeeds when it would
\* without it), the dataset's row is in the store, and the store holds the
\* table, column, measure and relationship rows it holds without that file.
C15_ErrorArtifactSkipped ==
    [][Imports
       => \A f \in DetailFiles :
            CarriesError(json_files, f)
            => With(import_from_directory(db, [json_files EXCEPT ![f] = NoFile]),
                    LAMBDA without :
                      /\ Imported.ok = without.ok
                      /\ Rows(db') = Rows(without.db)
                      /\ Imported.ok
                         => \A dataset \in DatasetsOfFile(json_files, f) :
                              /\ \E row \in db'.datasets : row.id = dataset.id
                              /\ Rows(db) = Rows(NoDb)
                                 => /\ \A row \in db'.tables : row.dataset_id # dataset.id
                                    /\ \A row \in db'.measures : row.dataset_id # dataset.id
                                    /\ \A row \in db'.relationships :
                                         row.dataset_id # dataset.id)]_vars

\* An import has succeeded on a directory whose artifact of dataset d1
\* carries an error next to its tables: d1 has its row and no table.
C15_Witness ==
    /\ json_files[TenantSummaryFile] = SummaryDict
    /\ json_files[File1] = DetailErrorWithTables
    /\ db # NoDb
    /\ db.analysis_runs # <<>>
    /\ db.analysis_runs[Len(db.analysis_runs)].datasets_count = 2
    /\ \E row \in db.datasets : row.id = D1.id
    /\ \A row \in db.tables : row.dataset_id # D1.id

\* The tenant summary is missing or cannot be parsed.
NoSummary(files) ==
    ~exists(files, TenantSummaryFile) \/ files[TenantSummaryFile] = Unparsable

\* C16: with the tenant summary missing or unparsable the import fails and
\* writes no row of the six metadata tables; and the scan whose import
\* fails goes from PROCESSING to FAILED with error_message and completed_at
\* set, not to COMPLETED.
C16_NoSummaryFailsImport ==
    [][Imports
       => /\ NoSummary(json_files)
             => ~Imported.ok /\ Rows(db') = Rows(db)
          /\ \A t \in DOMAIN tasks :
               (ImportArtifacts(t) /\ ~Imported.ok)
               => LET id == tasks[t].scan_id
                  IN /\ active_scans[id].status = PROCESSING
                     /\ active_scans'[id].status = FAILED
                     /\ Truthy(active_scans'[id].error_message)
                     /\ active_scans'[id].completed_at # NoTime
                     /\ fs'[ScanDir(active_scans'[id])] = active_scans'[id]]_vars

\* A scan has failed in its import on a directory whose summary cannot be
\* parsed; the store has the run and no row.
C16_Witness ==
    /\ json_files[TenantSummaryFile] = Unparsable
    /\ db # NoDb
    /\ Len(db.analysis_runs) = 1
    /\ Rows(db) = Rows(NoDb)
    /\ \E id \in ScanIds :
         /\ Cached(id)
         /\ active_scans[id].status = FAILED
         /\ active_scans[id].error_message = ErrImport
         /\ active_scans[id].completed_at # NoTime

\* A workspace, and a table, the importer can store.
Storable(entity) ==
    isdict(entity) /\ entity.id # Absent /\ entity.name \notin {Absent, PyNone}

\* C17: an entity that raises is skipped alone: with a summary that can be
\* parsed the import succeeds, every workspace of the summary that is well
\* formed has its row, and so has every table of a present detail artifact.
C17_OnlyTheEntitySkipped ==
    [][(Imports /\ ~NoSummary(json_files))
       => LET workspaces == Workspaces(json_files[TenantSummaryFile])
          IN /\ Imported.ok
             /\ \A i \in DOMAIN workspaces :
                  Storable(workspaces[i])
                  => \E row \in db'.workspaces : row.id = workspaces[i].id
             /\ \A t \in ArtifactTables(json_files, workspaces) :
                  LET table == Items(DetailOf(json_files, workspaces, t[1]).tables)[t[2]]
                  IN table.id # Absent
                     => \E row \in db'.tables : row.id = str(table.id)]_vars

\* ---------------------------------------------------------------------
\* Properties of the listing, under Spec
\* ---------------------------------------------------------------------

Started(t) == t \in DOMAIN tasks /\ tasks[t].pc = "extracting"

\* The scan of task t is gone, or is in a terminal state.
DeletedOrTerminal(t) ==
    /\ t \in DOMAIN tasks
    /\ \/ ~Visible(tasks[t].scan_id)
       \/ Found(tasks[t].scan_id).val.status \in TerminalStatus

\* The server process died under the run of task t.
Dead(t) == t \in DOMAIN tasks /\ tasks[t].pc = "dead"

\* start_scan of task t returns in this step.
Returns(t) ==
    /\ t \in DOMAIN tasks
    /\ tasks[t].result = "none"
    /\ tasks'[t].result \in {"true", "false"}

\* When start_scan returns, a scan that was not deleted is COMPLETED, FAILED
\* or CANCELLED, and COMPLETED when start_scan returns True.
ReturnsTerminal ==
    [][\A t \in ScanIds :
          (Returns(t) /\ active_scans'[tasks[t].scan_id] # PyNone)
          => LET status == active_scans'[tasks[t].scan_id].status
             IN /\ status \in TerminalStatus
                /\ tasks'[t].result = "true" => status = COMPLETED]_vars

AllowedChar(c) == isalnum(c) \/ c \in {"-", "_"}

OnlyAllowedChars(name) == \A i \in DOMAIN name : AllowedChar(name[i])

\* The characters of a name that are allowed or spaces, in their order.
RECURSIVE WithoutDisallowed(_)
WithoutDisallowed(name) ==
    IF name = <<>> THEN <<>>
    ELSE IF AllowedChar(Head(name)) \/ Head(name) = " "
         THEN <<Head(name)>> \o WithoutDisallowed(Tail(name))
         ELSE WithoutDisallowed(Tail(name))

\* stored is name with every space folded to an underscore.
SpacesFolded(name, stored) ==
    /\ Len(stored) = Len(name)
    /\ \A i \in DOMAIN name : stored[i] = IF name[i] = " " THEN "_" ELSE name[i]

\* C20: the stored name of every requested name holds only alphanumeric
\* characters, hyphens and underscores: it is the requested name with every
\* disallowed character removed and every space folded to an underscore.
C20_NameSanitized ==
    stored_name # PyNone
    => /\ OnlyAllowedChars(stored_name.parts)
       /\ Truthy(requested.scan_name)
          => SpacesFolded(WithoutDisallowed(requested.scan_name.parts),
                          stored_name.parts)

\* C20 as it holds: the stored name holds only alphanumeric characters,
\* hyphens and underscores; it is the requested name with every disallowed
\* character removed, the spaces then left at its end dropped and every
\* other space folded to an underscore.
C20_NameSanitizedTrailingSpacesDropped ==
    stored_name # PyNone
    => /\ OnlyAllowedChars(stored_name.parts)
       /\ Truthy(requested.scan_name)
          => LET kept == WithoutDisallowed(requested.scan_name.parts)
                 n == Len(stored_name.parts)
             IN /\ n <= Len(kept)
                /\ SpacesFolded(SubSeq(kept, 1, n), stored_name.parts)
                /\ \A i \in (n + 1)..Len(kept) : kept[i] = " "
                /\ n > 0 => kept[n] # " "

\* A name with a space at its start, a disallowed character and a space at
\* its end has been stored.
C20_Witness ==
    /\ requested # PyNone
    /\ requested.scan_name = PyStr(<<" ", "/", "a", " ">>)
    /\ stored_name = PyStr(<<"_", "a">>)

\* ---------------------------------------------------------------------
\* Properties of the log, the frame and the order of a run, under Spec
\* ---------------------------------------------------------------------

\* s is a prefix of t.
IsPrefix(s, t) == Len(s) <= Len(t) /\ SubSeq(t, 1, Len(s)) = s

\* The log in the metadata file of directory d (empty without a file).
FileLog(f, d) == IF IsRecord(f[d]) THEN f[d].log_messages ELSE <<>>

\* C21: log_messages is append-only: over every step that keeps the scan,
\* its log before the step is a prefix of its log after it, in the cache
\* and in the metadata file of its directory.
C21_LogAppendOnly ==
    [][\A id \in ScanIds :
          (Cached(id) /\ active_scans'[id] # PyNone)
          => /\ IsPrefix(active_scans[id].log_messages,
                         active_scans'[id].log_messages)
             /\ IsPrefix(FileLog(fs, ScanDir(active_scans[id])),
                         FileLog(fs', ScanDir(active_scans[id])))]_vars

\* The step is an operation on scan id: its creation, a cancel or a delete
\* of it, or a step of its background run.
OperationOn(id) ==
    \/ NewScanId = id /\ \E n \in RequestedNames : CreateScan(n)
    \/ CancelScan(id)
    \/ DeleteScan(id)
    \/ \E t \in DOMAIN tasks : tasks[t].scan_id = id /\ TaskStep(t)

\* C22: scans are independent: an operation on one scan, failing or not,
\* leaves the cache entry and the metadata file of every other scan as
\* they were.
C22_OtherScansUntouched ==
    [][\A id, other \in ScanIds :
          (OperationOn(id) /\ other # id)
          => /\ active_scans'[other] = active_scans[other]
             /\ Cached(other)
                => fs'[ScanDir(active_scans[other])]
                   = fs[ScanDir(active_scans[other])]]_vars

\* The step of the run of scan id in which its extraction exits with 0.
ExtractionExitsZero(id) ==
    \E t \in DOMAIN tasks, stderr \in StderrTexts :
        tasks[t].scan_id = id /\ ProcessExit(t, 0, stderr)

\* The step of the run of scan id in which its import succeeds.
ImportSucceeds(id) ==
    \E t \in DOMAIN tasks : tasks[t].scan_id = id /\ ImportScan(t, TRUE)

\* C23: a scan enters PROCESSING, with progress 80, only from RUNNING when
\* its extraction exits with 0, and enters COMPLETED, with progress 100 and
\* completed_at set, only from PROCESSING when its import succeeds.
C23_HappyPathOrdered ==
    [][\A id \in ScanIds :
          (Cached(id) /\ active_scans'[id] # PyNone)
          => LET before == active_scans[id]
                 after == active_scans'[id]
             IN /\ (after.status = PROCESSING /\ before.status # PROCESSING)
                   => /\ before.status = RUNNING
                      /\ ExtractionExitsZero(id)
                      /\ after.progress = 80
                /\ (after.status = COMPLETED /\ before.status # COMPLETED)
                   => /\ before.status = PROCESSING
                      /\ ImportSucceeds(id)
                      /\ after.progress = 100
                      /\ after.completed_at # NoTime]_vars

\* ---------------------------------------------------------------------
\* Properties of the metadata files and of what a run leaves, under Spec
\* ---------------------------------------------------------------------
\* C24: a metadata write replaces the file atomically, so that whoever
\* opens a metadata file, a getScan or listScans call or a process started
\* after the server died in the middle of a write, reads a whole record,
\* never an empty or partly written one.
C24_MetadataWriteAtomic ==
    \A d \in DirNames : fs[d] \notin {NoDir, NoFile} => IsRecord(fs[d])

\* ---------------------------------------------------------------------
\* Properties of the name of a detail file, under SpecFiles
\* ---------------------------------------------------------------------
\* C25: for every display name of a workspace and of a dataset, names with
\* spaces or slashes included, the detail file the importer looks up has
\* the name of the detail file the extraction wrote.
C25_LooksUpWrittenFile ==
    dataset_file # PyNone /\ dataset_file.looked_up # PyNone
    => dataset_file.looked_up = dataset_file.written

\* The world after the step.
WorldAfter == [cache |-> active_scans', fs |-> fs']

Listed(w, id) ==
    /\ ~list_scans(w).raised
    /\ \E i \in DOMAIN list_scans(w).val : list_scans(w).val[i].scan_id = id

\* C26: a delete removes the on-disk state of the scan it names and of no
\* other scan, whatever the names of the scans are (names that sanitize to
\* the same or to the empty string included): every other scan that a get
\* returned before is returned by a get after it with the same record, keeps
\* its directory as it was, and is still listed if it was listed.
C26_DeleteOnlyTarget ==
    [][\A id, other \in ScanIds :
          (DeleteScan(id) /\ other # id /\ Visible(other))
          => /\ ~get_scan(WorldAfter, other).raised
             /\ get_scan(WorldAfter, other).val = Found(other).val
             /\ fs'[ScanDir(Found(other).val)] = fs[ScanDir(Found(other).val)]
             /\ Listed(World, other) => Listed(WorldAfter, other)]_vars

\* C27: every import that returns Failure leaves the analysis_runs row it
\* made with success = 0: the missing tenant summary as the failure raised
\* while the artifacts are read.
C27_FailedImportMarksRun ==
    [][(Imports /\ ~Imported.ok)
       => LET runs == db'.analysis_runs
          IN /\ Len(runs) = Len(create_schema(db).analysis_runs) + 1
             /\ runs[Len(runs)].success = 0]_vars

\* C28: a deleted scan is not brought back by its own background run: once
\* a get of the scan finds nothing, the steps of its run (the status
\* updates, the import) leave the directories, the metadata files and the
\* cache as they are, and a get of the scan is still answered NotFound.
C28_NoResurrection ==
    [][\A t \in ScanIds :
          (TaskStep(t) /\ ~Visible(tasks[t].scan_id))
          => /\ fs' = fs
             /\ active_scans' = active_scans
             /\ api_get_scan(WorldAfter, tasks[t].scan_id).code = 404]_vars

\* The cancel of the scan was accepted: its log holds the entry of cancel.
CancelAccepted(id) ==
    /\ Cached(id)
    /\ \E i \in DOMAIN active_scans[id].log_messages :
          active_scans[id].log_messages[i] = MsgCancelled

\* C29: once a cancel of a scan was accepted its pipeline imports nothing:
\* the import step of its run creates no schema and writes no row, also
\* when the extraction has exited with code 0.
C29_NoImportAfterCancel ==
    [][\A t \in ScanIds :
          (/\ t \in DOMAIN tasks
           /\ ImportArtifacts(t)
           /\ CancelAccepted(tasks[t].scan_id))
          => db' = db]_vars

\* C30: a get of a scan id is answered with the scan or with NotFound and
\* never ends with an exception, whatever the metadata files hold: a file
\* that cannot be parsed is passed over.
C30_GetScanNeverRaises ==
    \A id \in ScanIds : api_get_scan(World, id).code \in {200, 404}

====
